---- MODULE Spec2Model ----
(***************************************************************************)
(* Record store of the songs API.                                          *)
(*                                                                         *)
(* Professional variant (api-python-profesional): the pydantic models of   *)
(* models/song.py, the JSON document on disk, the persistence layer        *)
(* (_read_data, _write_data, _create_backup), the CRUD operations of       *)
(* DatabaseService and the POST and PUT handlers of app.py.                *)
(* Minimal variant (api-python/main.py): read_data, write_data and the     *)
(* handlers add_song, update_song, delete_song.                            *)
(*                                                                         *)
(* Specifications:                                                         *)
(*   Spec          the operations of DatabaseService, each call atomic     *)
(*   SpecHttp      the store behind the handlers of app.py                 *)
(*   SpecPersist   _read_data and _write_data, the write step by step      *)
(*   SpecValidate  the validation of a SongCreate payload on its own       *)
(*   SpecMinimal   the handlers of the minimal variant                     *)
(*   SpecQuery     the listing, the lookup, the statistics and the page of *)
(*                 GET /songs over stores with malformed records           *)
(*   SpecConcurrent  two calls in two threads, _write_data step by step    *)
(*                                                                         *)
(* Values are tagged so that a JSON string, a JSON number, null and a      *)
(* Python datetime object stay different things: what json.dump accepts    *)
(* and what pydantic parses depends on that difference.                    *)
(***************************************************************************)
EXTENDS Integers, Sequences, FiniteSets, TLC

\* ------------------------------------------------------------------ bounds
\* ids of the records a pre-existing database file may hold: 1..MaxId
MaxId == 2
\* the clock (datetime.now()) runs over 0..MaxClock
MaxClock == 1

\* the runs of the persistence layer make at most MaxCalls calls
MaxCalls == 2

\* ------------------------------------------------------------------ values
Null == [k |-> "null"]
Str(s) == [k |-> "str", s |-> s]
Num(n) == [k |-> "int", n |-> n]
\* the string datetime.isoformat() gives for the instant t
IsoStr(t) == [k |-> "str", iso |-> t]
\* a Python datetime object for the instant t
Datetime(t) == [k |-> "datetime", t |-> t]

IsIso(v) == v.k = "str" /\ "iso" \in DOMAIN v
IsText(v) == v.k = "str" /\ "s" \in DOMAIN v

\* the string made of lead whitespace characters, then s, then trail
\* whitespace characters; s neither starts nor ends with whitespace, and a
\* string of whitespace only has s = "" and trail = 0
Padded(lead, s, trail) ==
    IF lead = 0 /\ trail = 0 THEN Str(s)
    ELSE [k |-> "str", s |-> s, lead |-> lead, trail |-> trail]
Lead(v) == IF "lead" \in DOMAIN v THEN v.lead ELSE 0
Trail(v) == IF "trail" \in DOMAIN v THEN v.trail ELSE 0
\* len(v)
StrLen(v) == Lead(v) + Len(v.s) + Trail(v)
\* v.strip()
Strip(v) == Str(v.s)

RECURSIVE Chars(_)
\* "A" * n
Chars(n) ==
    IF n = 0 THEN "" ELSE IF n = 1 THEN "A"
    ELSE Chars(n \div 2) \o Chars(n - (n \div 2))

\* json.dump: str, int and None are serializable, a datetime object is not
\* (database.py passes no default= encoder)
JsonSerializable(v) == v.k \in {"null", "str", "int"}

\* ------------------------------------------------------------------ models
SongFields == {"titulo", "artista", "album", "año"}
DbFields == {"id", "uuid", "created_at", "updated_at"}

\* pydantic datetime field: accepts a datetime object or an ISO string
DatetimeOk(v) == v.k = "datetime" \/ IsIso(v)
ParseDatetime(v) == IF v.k = "datetime" THEN v ELSE Datetime(v.iso)

\* Field(min_length=, max_length=, ge=) of SongBase and SongUpdate
MinLength == 1
TituloMaxLength == 200
ArtistaMaxLength == 100
AlbumMaxLength == 200
YearGe == 1800
\* le=datetime.now().year: the class body runs once, when models/song.py is
\* imported, so the bound is the year in which the process started
YearAtImport == 2026

\* a str field with Field(min_length, max_length): the constraint is part
\* of the field's type and is checked on the value as given
ConstrainedStr(v, min_length, max_length) ==
    IsText(v) /\ StrLen(v) >= min_length /\ StrLen(v) <= max_length
\* Optional[int] with ge and le
ConstrainedYear(v) == v.k = "int" /\ v.n >= YearGe /\ v.n <= YearAtImport

\* the fields of SongBase: the Field constraints, then the validators
\* strip_whitespace and no_empty_after_strip on the value the constraint
\* let through
SongBaseValid(d) ==
    /\ "titulo" \in DOMAIN d /\ ConstrainedStr(d["titulo"], MinLength, TituloMaxLength)
    /\ Strip(d["titulo"]) # Str("")
    /\ "artista" \in DOMAIN d /\ ConstrainedStr(d["artista"], MinLength, ArtistaMaxLength)
    /\ Strip(d["artista"]) # Str("")
    /\ ("album" \in DOMAIN d =>
            d["album"].k = "null" \/ ConstrainedStr(d["album"], 0, AlbumMaxLength))
    /\ ("año" \in DOMAIN d => d["año"].k = "null" \/ ConstrainedYear(d["año"]))

\* the field values a SongBase object holds: titulo and artista stripped,
\* absent optional fields None
SongBaseField(d, f) ==
    IF f \in {"titulo", "artista"} THEN Strip(d[f])
    ELSE IF f \in DOMAIN d THEN d[f] ELSE Null

\* SongCreate(**json) raises no pydantic ValidationError
SongCreateValid(json) == SongBaseValid(json)
\* the SongCreate object
SongCreate(json) == [f \in SongFields |-> SongBaseField(json, f)]

\* Song(**d) accepts d: the fields of SongBase, and id, uuid, created_at,
\* updated_at present and of their type; other keys are ignored
SongValid(d) ==
    /\ SongBaseValid(d)
    /\ "id" \in DOMAIN d /\ d["id"].k = "int"
    /\ "uuid" \in DOMAIN d /\ d["uuid"].k = "str"
    /\ "created_at" \in DOMAIN d /\ DatetimeOk(d["created_at"])
    /\ "updated_at" \in DOMAIN d /\ DatetimeOk(d["updated_at"])

\* the Song object Song(**d) builds: the two timestamps become datetime
\* objects, absent optional fields become None
Song(d) ==
    [f \in SongFields \cup DbFields |->
        IF f \in {"created_at", "updated_at"} THEN ParseDatetime(d[f])
        ELSE IF f \in SongFields THEN SongBaseField(d, f)
        ELSE d[f]]

\* song.dict(): the field values as the object holds them; the datetime
\* objects stay datetime objects
SongDict(song) == [f \in DOMAIN song |-> song[f]]

\* SongUpdate(**json): keys other than the four fields are ignored
\* (pydantic's default Extra.ignore); __fields_set__ is the keys given
SongUpdateFieldsSet(json) == DOMAIN json \cap SongFields

\* SongUpdate validation: a field given as null is not validated, the
\* others by their Field constraints; then at_least_one_field
SongUpdateValid(json) ==
    /\ \A f \in SongUpdateFieldsSet(json) :
          \/ json[f].k = "null"
          \/ f = "titulo" /\ ConstrainedStr(json[f], MinLength, TituloMaxLength)
          \/ f = "artista" /\ ConstrainedStr(json[f], MinLength, ArtistaMaxLength)
          \/ f = "album" /\ ConstrainedStr(json[f], 0, AlbumMaxLength)
          \/ f = "año" /\ ConstrainedYear(json[f])
    /\ \E f \in SongUpdateFieldsSet(json) : json[f].k # "null"

\* mutant: SongUpdate keeps the keys it does not declare (Extra.allow)
SongUpdateDictExtraAllowed(json) == json

\* song_data.dict(exclude_unset=True) of SongUpdate(**json); strip_whitespace
\* has stripped titulo and artista
SongUpdateDict(json) ==
    [f \in SongUpdateFieldsSet(json) |->
        IF f \in {"titulo", "artista"} /\ json[f].k # "null" THEN Strip(json[f])
        ELSE json[f]]

\* ------------------------------------------------------------- file system
\* content of a path: no file, a complete JSON document, or the truncated
\* output of a json.dump that raised part-way
Absent == [kind |-> "absent"]
Partial == [kind |-> "partial"]
Doc(songs, metadata) == [kind |-> "doc", songs |-> songs, metadata |-> metadata]
Exists(c) == c.kind # "absent"
\* valid JSON that is not an object (a list, a number, ...)
NonObject == [kind |-> "array"]
\* JSON objects without the key "metadata", without the key "songs"
SongsOnly(songs) == [kind |-> "doc", songs |-> songs]
MetadataOnly(metadata) == [kind |-> "doc", metadata |-> metadata]

\* mutant: any valid JSON passes for a dictionary
IsObjectOrArray(c) == c.kind \in {"doc", "array"}

\* _read_data line 70: isinstance(data, dict)
IsObject(c) == c.kind = "doc"

\* _get_metadata(): total_records 0, no last_updated key yet
get_metadata == [version |-> Str("1.0.0"), total_records |-> 0, last_updated |-> Null]

DictSerializable(d) == \A f \in DOMAIN d : JsonSerializable(d[f])
\* the metadata holds strings and numbers only
DocSerializable(data) ==
    "songs" \in DOMAIN data =>
        \A i \in 1..Len(data.songs) : DictSerializable(data.songs[i])

\* what can go wrong in a call, chosen by the environment:
\*   rf: open/json.load of the database file fails
\*   bf: the copy to the backup path fails
\*   wf: "open" the temporary file cannot be opened, "dump" writing it fails
\*       part-way (disk full), "replace" the rename fails, "none"
FaultRecords ==
    {[rf |-> TRUE, bf |-> FALSE, wf |-> "none"]} \cup
    {[rf |-> FALSE, bf |-> b, wf |-> w] : b \in BOOLEAN, w \in {"none", "open", "dump", "replace"}}
NoFault == [rf |-> FALSE, bf |-> FALSE, wf |-> "none"]
\* the faults the calls of Spec are run under: none, or one of an unreadable
\* file, a failed backup copy, a temporary file that cannot be opened
Faults ==
    {NoFault, [NoFault EXCEPT !.rf = TRUE], [NoFault EXCEPT !.bf = TRUE],
     [NoFault EXCEPT !.wf = "open"]}

\* mutant: the database file is moved to the backup path, not copied
move_to_backup(st, f) ==
    IF Exists(st.file) /\ ~f.bf THEN [st EXCEPT !.backup = st.file, !.file = Absent] ELSE st

\* _create_backup: copy the database file over the backup; a failure is
\* logged and swallowed
create_backup(st, f) ==
    IF Exists(st.file) /\ ~f.bf THEN [st EXCEPT !.backup = st.file] ELSE st

\* mutant: the metadata is stamped with the time only
StampKeepsCount(data, now) ==
    [x \in DOMAIN data \cup {"metadata"} |->
        IF x = "metadata"
        THEN [(IF "metadata" \in DOMAIN data THEN data.metadata ELSE get_metadata)
                EXCEPT !.last_updated = IsoStr(now)]
        ELSE data[x]]

\* _write_data lines 111-115: metadata added if the key is missing, then
\* last_updated and total_records set
Stamp(data, now) ==
    [x \in DOMAIN data \cup {"metadata"} |->
        IF x = "metadata"
        THEN [(IF "metadata" \in DOMAIN data THEN data.metadata ELSE get_metadata)
                EXCEPT !.last_updated = IsoStr(now),
                       !.total_records =
                            IF "songs" \in DOMAIN data THEN Len(data.songs) ELSE 0]
        ELSE data[x]]

\* mutant: the document is written in place, open(self.db_path, 'w')
open_db_path(st, f) ==
    IF f.wf = "open" THEN [st |-> st, err |-> "DatabaseWriteError"]
    ELSE [st |-> [st EXCEPT !.file = Partial], err |-> "none"]

\* _write_data line 119: open(temp_path, 'w') creates or truncates the
\* temporary file
open_temp(st, f) ==
    IF f.wf = "open" THEN [st |-> st, err |-> "DatabaseWriteError"]
    ELSE [st |-> [st EXCEPT !.tmp = Partial], err |-> "none"]

\* mutant: json.dump writes through to the database file, which a failed
\* dump leaves truncated
dump_db_path(st, stamped, f) ==
    IF ~DocSerializable(stamped) \/ f.wf = "dump"
    THEN [st |-> [st EXCEPT !.tmp = Partial, !.file = Partial], err |-> "DatabaseWriteError"]
    ELSE [st |-> [st EXCEPT !.tmp = stamped], err |-> "none"]

\* _write_data line 120: json.dump into the temporary file; when it raises
\* (a value that is not serializable, a full disk) the file stays truncated
dump_temp(st, stamped, f) ==
    IF ~DocSerializable(stamped) \/ f.wf = "dump"
    THEN [st |-> [st EXCEPT !.tmp = Partial], err |-> "DatabaseWriteError"]
    ELSE [st |-> [st EXCEPT !.tmp = stamped], err |-> "none"]

\* _write_data line 123: temp_path.replace(self.db_path), an atomic rename
replace_temp(st, f) ==
    IF f.wf = "replace" THEN [st |-> st, err |-> "DatabaseWriteError"]
    ELSE [st |-> [st EXCEPT !.file = st.tmp, !.tmp = Absent], err |-> "none"]

\* _write_data: backup, stamp the metadata, dump to the temporary file,
\* rename it over the database file; every exception becomes
\* DatabaseWriteError
write_data(st, data, now, f) ==
    LET b == create_backup(st, f)
        o == open_temp(b, f)
        d == dump_temp(o.st, Stamp(data, now), f)
    IN  IF o.err # "none" THEN o
        ELSE IF d.err # "none" THEN d
        ELSE replace_temp(d.st, f)

\* _read_data lines 73-77: the keys "songs" and "metadata" are filled in
Filled(c) ==
    [kind |-> "doc",
     songs |-> IF "songs" \in DOMAIN c THEN c.songs ELSE <<>>,
     metadata |-> IF "metadata" \in DOMAIN c THEN c.metadata ELSE get_metadata]

\* _read_data: a missing file is created empty (_initialize_database) and
\* an empty document returned; a file that cannot be opened, is not valid
\* JSON (JSONDecodeError) or is not a JSON object (ValueError) gives
\* DatabaseReadError, as every exception does; otherwise the parsed document
read_data(st, now, f) ==
    IF ~Exists(st.file)
    THEN LET w == write_data(st, Doc(<<>>, get_metadata), now, f)
         IN  IF w.err # "none"
             THEN [st |-> w.st, err |-> "DatabaseReadError", data |-> Absent]
             ELSE [st |-> w.st, err |-> "none", data |-> Doc(<<>>, get_metadata)]
    ELSE IF f.rf \/ st.file.kind = "partial" \/ ~IsObject(st.file)
    THEN [st |-> st, err |-> "DatabaseReadError", data |-> Absent]
    ELSE [st |-> st, err |-> "none", data |-> Filled(st.file)]

\* ------------------------------------------------------------ record store
RECURSIVE MaxIdOf(_)
\* max(existing_ids, default=0)
MaxIdOf(songs) ==
    IF songs = <<>> THEN 0
    ELSE LET m == MaxIdOf(Tail(songs))
             h == Head(songs)["id"].n
         IN  IF h > m THEN h ELSE m

\* mutant: the id is the number of records plus one
NewIdByCount(songs) == Len(songs) + 1

\* create_song line 216
NewId(songs) == MaxIdOf(songs) + 1

\* the result of a call: the files afterwards, the outcome of the store
\* method (a return value or the exception raised), the value returned, the
\* Song object the call built (None if it built none), the id create_song
\* generated (0 if none); status and error are the HTTP response when the
\* call came through a handler (0 and "" otherwise); doc is the document the
\* call handed to _write_data (Absent if it got to no write)
Result(st, outcome, ret, song, new_id) ==
    [st |-> st, outcome |-> outcome, ret |-> ret, song |-> song,
     new_id |-> new_id, status |-> 0, error |-> "", doc |-> Absent]
Wrote(r, data) == [r EXCEPT !.doc = data]

\* mutant: the new record is put in front of the list
InsertFirst(songs_data, song_dict) == <<song_dict>> \o songs_data

\* create_song line 233: songs_data.append(song.dict())
AppendSong(songs_data, song_dict) == Append(songs_data, song_dict)

\* create_song(song_data): song_data is a validated SongCreate, uuid the
\* value uuid4() draws
create_song(st, song_data, uuid, now, f) ==
    LET r == read_data(st, now, f) IN
    IF r.err # "none" THEN Result(r.st, "DatabaseReadError", Null, Null, 0)
    ELSE
    LET songs_data == r.data.songs
        new_id == NewId(songs_data)
        song_dict == [x \in SongFields \cup DbFields |->
                        CASE x = "id" -> Num(new_id)
                          [] x = "uuid" -> uuid
                          [] x \in {"created_at", "updated_at"} -> IsoStr(now)
                          [] OTHER -> song_data[x]]
    IN  IF ~SongValid(song_dict)
        THEN Result(r.st, "DatabaseWriteError", Null, Null, new_id)
        ELSE
        LET song == Song(song_dict)
            data == [r.data EXCEPT !.songs = AppendSong(songs_data, SongDict(song))]
            w == write_data(r.st, data, now, f)
        IN  IF w.err # "none"
            THEN Wrote(Result(w.st, "DatabaseWriteError", Null, song, new_id), data)
            ELSE Wrote(Result(w.st, "ok", song, song, new_id), data)

\* mutant: the loop variable is used as the index, found or not
FindIndexLoopVariable(songs, song_id) ==
    IF \E i \in 1..Len(songs) : songs[i]["id"] = Num(song_id)
    THEN CHOOSE i \in 1..Len(songs) :
            /\ songs[i]["id"] = Num(song_id)
            /\ \A j \in 1..(i - 1) : songs[j]["id"] # Num(song_id)
    ELSE Len(songs)

\* update_song lines 266-271: index of the first record with the id, 0 for None
FindIndex(songs, song_id) ==
    IF \E i \in 1..Len(songs) : songs[i]["id"] = Num(song_id)
    THEN CHOOSE i \in 1..Len(songs) :
            /\ songs[i]["id"] = Num(song_id)
            /\ \A j \in 1..(i - 1) : songs[j]["id"] # Num(song_id)
    ELSE 0

\* mutant: the merge leaves updated_at as it is stored
MergeKeepsUpdatedAt(current_song, update_data, now) ==
    [x \in DOMAIN current_song \cup DOMAIN update_data |->
        IF x \in DOMAIN update_data THEN update_data[x] ELSE current_song[x]]

\* update_song lines 281-285: overwrite the keys of update_data, stamp updated_at
Merge(current_song, update_data, now) ==
    [x \in DOMAIN current_song \cup DOMAIN update_data \cup {"updated_at"} |->
        IF x = "updated_at" THEN IsoStr(now)
        ELSE IF x \in DOMAIN update_data THEN update_data[x]
        ELSE current_song[x]]

\* update_song(song_id, song_data): update_data is
\* song_data.dict(exclude_unset=True); a read error is not re-raised as such
\* but falls into "except Exception"
update_song(st, song_id, update_data, now, f) ==
    LET r == read_data(st, now, f) IN
    IF r.err # "none" THEN Result(r.st, "DatabaseWriteError", Null, Null, 0)
    ELSE
    LET songs_data == r.data.songs
        song_index == FindIndex(songs_data, song_id)
    IN  IF song_index = 0
        THEN Result(r.st, "SongNotFoundError", Null, Null, 0)
        ELSE
        LET current_song == Merge(songs_data[song_index], update_data, now) IN
        IF ~SongValid(current_song)
        THEN Result(r.st, "DatabaseWriteError", Null, Null, 0)
        ELSE
        LET updated_song == Song(current_song)
            data == [r.data EXCEPT !.songs =
                        [songs_data EXCEPT ![song_index] = SongDict(updated_song)]]
            w == write_data(r.st, data, now, f)
        IN  IF w.err # "none"
            THEN Wrote(Result(w.st, "DatabaseWriteError", Null, updated_song, 0), data)
            ELSE Wrote(Result(w.st, "ok", updated_song, updated_song, 0), data)

\* the ids of the records of a list
IdsOf(songs) == {songs[i]["id"].n : i \in 1..Len(songs)}

\* mutant: the record at position song_id is removed
WithoutIdByPosition(songs, song_id) ==
    [i \in 1..(IF song_id <= Len(songs) THEN Len(songs) - 1 ELSE Len(songs)) |->
        IF i < song_id THEN songs[i] ELSE songs[i + 1]]

\* delete_song line 324
WithoutId(songs, song_id) == SelectSeq(songs, LAMBDA s : s["id"] # Num(song_id))

\* delete_song(song_id): True, False, or DatabaseWriteError (a read error
\* included: "except Exception")
delete_song(st, song_id, now, f) ==
    LET r == read_data(st, now, f) IN
    IF r.err # "none" THEN Result(r.st, "DatabaseWriteError", Null, Null, 0)
    ELSE
    LET songs_data == WithoutId(r.data.songs, song_id) IN
    IF Len(songs_data) = Len(r.data.songs)
    THEN Result(r.st, "False", Null, Null, 0)
    ELSE
    LET data == [r.data EXCEPT !.songs = songs_data]
        w == write_data(r.st, data, now, f)
    IN  IF w.err # "none"
        THEN Wrote(Result(w.st, "DatabaseWriteError", Null, Null, 0), data)
        ELSE Wrote(Result(w.st, "True", Null, Null, 0), data)

RECURSIVE ParsedSongsUntilInvalid(_)
\* mutant: the first record that does not parse ends the loop
ParsedSongsUntilInvalid(songs_data) ==
    IF songs_data = <<>> THEN <<>>
    ELSE IF SongValid(Head(songs_data))
    THEN <<Song(Head(songs_data))>> \o ParsedSongsUntilInvalid(Tail(songs_data))
    ELSE <<>>

RECURSIVE ParsedSongs(_)
\* get_all_songs lines 157-164: Song(**song_data) for each record in file
\* order; a record for which it raises is logged and skipped
ParsedSongs(songs_data) ==
    IF songs_data = <<>> THEN <<>>
    ELSE IF SongValid(Head(songs_data))
    THEN <<Song(Head(songs_data))>> \o ParsedSongs(Tail(songs_data))
    ELSE ParsedSongs(Tail(songs_data))

\* get_all_songs(): the list of Song objects (in ret), or DatabaseReadError
get_all_songs(st, now, f) ==
    LET r == read_data(st, now, f) IN
    IF r.err # "none" THEN Result(r.st, "DatabaseReadError", Null, Null, 0)
    ELSE Result(r.st, "ok", ParsedSongs(r.data.songs), Null, 0)

\* get_song_by_id(song_id): the first Song of get_all_songs() with the id,
\* None if there is none
get_song_by_id(st, song_id, now, f) ==
    LET r == get_all_songs(st, now, f) IN
    IF r.outcome # "ok" THEN r
    ELSE
    LET songs == r.ret
        found == {i \in 1..Len(songs) : songs[i]["id"] = Num(song_id)}
    IN  IF found = {} THEN Result(r.st, "ok", Null, Null, 0)
        ELSE LET song == songs[CHOOSE i \in found : \A j \in found : i <= j]
             IN  Result(r.st, "ok", song, song, 0)

\* bool(v) of a field value: None, 0 and the empty string are false
Truthy(v) ==
    CASE v.k = "null" -> FALSE
      [] v.k = "int" -> v.n # 0
      [] v.k = "str" -> StrLen(v) > 0
      [] OTHER -> TRUE

\* min(years) if years else None, max(years) if years else None
MinYear(years) == IF years = {} THEN Null ELSE Num(CHOOSE y \in years : \A z \in years : y <= z)
MaxYear(years) == IF years = {} THEN Null ELSE Num(CHOOSE y \in years : \A z \in years : z <= y)

\* get_database_stats line 357: if song.album
AlbumCounted(song) == Truthy(song["album"])

\* get_database_stats(): the statistics over get_all_songs(); every
\* exception becomes DatabaseReadError.  database_size, the byte size of the
\* file, is left out of the statistics here
get_database_stats(st, now, f) ==
    LET r == get_all_songs(st, now, f) IN
    IF r.outcome # "ok" THEN r
    ELSE
    LET songs == r.ret
        artists == {songs[i]["artista"] : i \in 1..Len(songs)}
        albums == {songs[i]["album"] : i \in {j \in 1..Len(songs) : AlbumCounted(songs[j])}}
        years == {songs[i]["año"].n : i \in {j \in 1..Len(songs) : Truthy(songs[j]["año"])}}
    IN  Result(r.st, "ok",
               [total_songs |-> Len(songs), total_artists |-> Cardinality(artists),
                total_albums |-> Cardinality(albums),
                min_year |-> MinYear(years), max_year |-> MaxYear(years)],
               Null, 0)

\* ------------------------------------------------------------ HTTP adapter
\* the response of a handler: status and error code (error "" on success)
Response(r, status, error) == [r EXCEPT !.status = status, !.error = error]

\* app.py update_song (PUT /songs/<id>): the except clauses name
\* utils.errors.ValidationError and utils.errors.NotFoundError; pydantic's
\* ValidationError and the store's SongNotFoundError are neither, and go to
\* "except Exception", answered by handle_app_exception with status 500
app_update_song(st, song_id, json_content_type, json, now, f) ==
    LET none == Result(st, "no call", Null, Null, 0) IN
    IF ~json_content_type THEN Response(none, 400, "VALIDATION_ERROR")
    ELSE IF DOMAIN json = {} THEN Response(none, 400, "VALIDATION_ERROR")
    ELSE IF ~SongUpdateValid(json) THEN Response(none, 500, "INTERNAL_ERROR")
    ELSE
    LET r == update_song(st, song_id, SongUpdateDict(json), now, f) IN
    CASE r.outcome = "ok" -> Response(r, 200, "")
      [] r.outcome = "DatabaseWriteError" -> Response(r, 500, "DATABASE_WRITE_ERROR")
      [] OTHER -> Response(r, 500, "INTERNAL_ERROR")

\* app.py create_song (POST /songs): "except ValidationError" names
\* utils.errors.ValidationError, so pydantic's ValidationError from
\* SongCreate(**request.json), like a DatabaseReadError, goes to
\* "except Exception" and is answered with status 500
app_create_song(st, json_content_type, json, uuid, now, f) ==
    LET none == Result(st, "no call", Null, Null, 0) IN
    IF ~json_content_type THEN Response(none, 400, "VALIDATION_ERROR")
    ELSE IF DOMAIN json = {} THEN Response(none, 400, "VALIDATION_ERROR")
    ELSE IF ~SongCreateValid(json) THEN Response(none, 500, "INTERNAL_ERROR")
    ELSE
    LET r == create_song(st, SongCreate(json), uuid, now, f) IN
    CASE r.outcome = "ok" -> Response(r, 201, "")
      [] r.outcome = "DatabaseWriteError" -> Response(r, 500, "DATABASE_WRITE_ERROR")
      [] OTHER -> Response(r, 500, "INTERNAL_ERROR")

\* request.args.get('page', 1, type=int), request.args.get('per_page', 50,
\* type=int): the default when the parameter is missing or is no integer
DefaultPage == 1
DefaultPerPage == 50
\* min(100, ...)
MaxPerPage == 100
ArgInt(v, default) == IF v.k = "int" THEN v.n ELSE default

Max(a, b) == IF a >= b THEN a ELSE b
Min(a, b) == IF a <= b THEN a ELSE b

\* mutant: the slice starts at page * per_page
StartIdxOfNextPage(page, per_page) == page * per_page

\* get_songs line 249
StartIdx(page, per_page) == (page - 1) * per_page

\* songs[start_idx:end_idx], 0 <= start_idx <= end_idx: the elements at the
\* indices start_idx .. end_idx - 1 (from 0) that exist
Slice(songs, start_idx, end_idx) ==
    LET lo == Min(start_idx, Len(songs))
        hi == Min(end_idx, Len(songs))
    IN  [i \in 1..(hi - lo) |-> songs[lo + i]]

\* app.py get_songs (GET /songs): the SongList of the page, status 200;
\* DatabaseReadError is answered with status 500
app_get_songs(st, page_arg, per_page_arg, now, f) ==
    LET page == Max(1, ArgInt(page_arg, DefaultPage))
        per_page == Min(MaxPerPage, Max(1, ArgInt(per_page_arg, DefaultPerPage)))
        r == get_all_songs(st, now, f)
    IN  IF r.outcome # "ok" THEN Response(r, 500, "DATABASE_READ_ERROR")
        ELSE
        LET songs == r.ret
            total == Len(songs)
            start_idx == StartIdx(page, per_page)
            end_idx == start_idx + per_page
        IN  Response([r EXCEPT !.ret =
                        [songs |-> Slice(songs, start_idx, end_idx), total |-> total,
                         page |-> page, per_page |-> per_page,
                         has_next |-> end_idx < total, has_prev |-> page > 1]],
                     200, "")

\* ------------------------------------------------------------------- inputs
Uuid(n) == [k |-> "str", uuid |-> n]

\* a record of a database file that exists before the service starts, in
\* the layout of tests/conftest.py sample_songs_data
StoredSong(i) ==
    [x \in SongFields \cup DbFields |->
        CASE x = "id" -> Num(i)
          [] x = "uuid" -> Uuid(i)
          [] x = "titulo" -> Str("Stored Title")
          [] x = "artista" -> Str("Stored Artist")
          [] x = "album" -> IF i % 2 = 1 THEN Str("Stored Album") ELSE Null
          [] x = "año" -> IF i = 1 THEN Null ELSE Num(1975)
          [] OTHER -> IsoStr(0)]

RECURSIVE StoredSongs(_)
\* the stored records with the ids in S, in ascending id order (the order
\* in which max+1 creates them)
StoredSongs(S) ==
    IF S = {} THEN <<>>
    ELSE LET m == CHOOSE x \in S : \A y \in S : y <= x
         IN  Append(StoredSongs(S \ {m}), StoredSong(m))

InitialDocs ==
    {Doc(StoredSongs(S), [get_metadata EXCEPT !.total_records = Cardinality(S)]) :
        S \in SUBSET (1..MaxId)}

\* ids a caller asks for: the stored ones and one no record has
SongIds == 1..(MaxId + 1)
\* ids the PUT requests name: one a record may have, one no record has
PutIds == {1, MaxId + 1}

SongData(titulo, artista, album, year) ==
    [x \in SongFields |->
        CASE x = "titulo" -> titulo [] x = "artista" -> artista
          [] x = "album" -> album [] OTHER -> year]

\* a key the JSON object does not have
Missing == [k |-> "missing"]
\* the JSON object with the four fields, those given as Missing left out
Json(titulo, artista, album, year) ==
    LET all == SongData(titulo, artista, album, year)
    IN  [x \in {y \in SongFields : all[y] # Missing} |-> all[x]]

\* validated SongCreate objects (conftest.py create_song_data, and one
\* without the optional fields)
CreatePayloads ==
    {SongData(Str("Test Song"), Str("Test Artist"), Str("Test Album"), Num(2023)),
     SongData(Str("Test Song"), Str("Test Artist"), Null, Null)}

\* the value uuid4() draws: not the uuid of a stored record
FreshUuids == {Uuid(0)}

AlbumOnly == "album" :> Str("Updated Album")
\* SongUpdate(album="Updated Album", año=2024).dict() (conftest.py update_song_data)
UpdateSongDataDict ==
    ("titulo" :> Null) @@ ("artista" :> Null) @@
    ("album" :> Str("Updated Album")) @@ ("año" :> Num(2024))
\* a payload that also names the identity fields
WithIdentity ==
    ("id" :> Num(99)) @@ ("uuid" :> Str("client")) @@
    ("created_at" :> IsoStr(99)) @@ ("titulo" :> Str("New Title"))
EmptyJson == [x \in {} |-> Null]
AllNull == "album" :> Null

\* a payload none of whose keys is a field of SongUpdate
OnlyUnknown == "genre" :> Str("Rock")

\* JSON bodies of a PUT
UpdateJsons == {AlbumOnly, UpdateSongDataDict, WithIdentity, EmptyJson, AllNull, OnlyUnknown}

\* JSON bodies of a POST: the invalid ones of tests/test_songs_api.py
\* (artista missing, titulo empty, año 2099, titulo of 201 characters), a
\* valid one, and a valid one that names an id
PostJsons ==
    {Json(Str("Test Song"), Missing, Missing, Missing),
     Json(Str(""), Str("Test Artist"), Missing, Missing),
     Json(Str("Future Song"), Str("Future Artist"), Missing, Num(2099)),
     Json(Str(Chars(TituloMaxLength + 1)), Str("Test Artist"), Missing, Missing),
     Json(Str("Test Song"), Str("Test Artist"), Str("Test Album"), Num(2023)),
     Json(Str("Test Song"), Str("Test Artist"), Missing, Missing) @@ ("id" :> Num(99))}

\* the calendar year of the instant t: models/song.py is imported at instant
\* 0, and in the runs of the validation the instants are a year apart (a
\* process that is still serving after New Year is one of them)
YearOf(t) == YearAtImport + t

\* field values at and around the limits of the Field constraints, with and
\* without surrounding whitespace
TituloValues ==
    {Missing, Str(""), Padded(2, "", 0), Str(Chars(MinLength)),
     Str(Chars(TituloMaxLength)), Str(Chars(TituloMaxLength + 1)),
     Padded(1, Chars(TituloMaxLength), 0), Padded(1, Chars(3), 1)}
ArtistaValues ==
    {Missing, Str(""), Str(Chars(ArtistaMaxLength)), Str(Chars(ArtistaMaxLength + 1)),
     Padded(0, Chars(ArtistaMaxLength), 1)}
AlbumValues == {Missing, Str(Chars(AlbumMaxLength)), Str(Chars(AlbumMaxLength + 1))}
YearValues ==
    {Missing, Num(YearGe - 1), Num(YearGe)} \cup
    {Num(YearOf(t)) : t \in 0..(MaxClock + 1)}

\* JSON bodies given to SongCreate(**json)
ValidationPayloads ==
    {Json(titulo, artista, album, year) :
        titulo \in TituloValues, artista \in ArtistaValues,
        album \in AlbumValues, year \in YearValues}

\* ------------------------------------------------------------------- state
\* what the caller of a call gets to see of its result
Outcome(r) == [x \in DOMAIN r \ {"st"} |-> r[x]]

VARIABLES
    file,       \* content of settings.DATABASE_PATH
    backup,     \* content of settings.DATABASE_BACKUP_PATH
    tmp,        \* content of the .tmp sibling of the database path
    clock,      \* datetime.now()
    deleted,    \* ids delete_song removed so far
    last,       \* the last call: its arguments (ct: the request's Content-Type
                \* is application/json), the files before it, its result
    threads     \* the calls under way in the threads of the server
                \* (app.run(threaded=True)): for each its position and locals;
                \* empty where the calls are taken one at a time

vars == <<file, backup, tmp, clock, deleted, last, threads>>

St == [file |-> file, backup |-> backup, tmp |-> tmp]

Init ==
    /\ file \in InitialDocs
    /\ backup = Absent
    /\ tmp = Absent
    /\ clock = 0
    /\ deleted = {}
    /\ threads = <<>>
    /\ last = [op |-> "init", song_id |-> 0, arg |-> EmptyJson, ct |-> TRUE, f |-> NoFault,
               pre |-> [file |-> file, backup |-> Absent, tmp |-> Absent],
               after_delete |-> 0, r |-> Outcome(Result(St, "ok", Null, Null, 0))]

\* a call with result r took place
Called(op, song_id, arg, ct, f, r) ==
    /\ file' = r.st.file
    /\ backup' = r.st.backup
    /\ tmp' = r.st.tmp
    /\ deleted' = IF op = "delete_song" /\ r.outcome = "True"
                  THEN deleted \cup {song_id} ELSE deleted
    /\ last' = [op |-> op, song_id |-> song_id, arg |-> arg, ct |-> ct, f |-> f, pre |-> St,
                after_delete |-> IF last.op = "delete_song" /\ last.r.outcome = "True"
                                 THEN last.song_id ELSE 0,
                r |-> Outcome(r)]
    /\ UNCHANGED <<clock, threads>>

\* time passes
Tick ==
    /\ clock < MaxClock
    /\ clock' = clock + 1
    /\ UNCHANGED <<file, backup, tmp, deleted, last, threads>>

CreateSong ==
    \E song_data \in CreatePayloads, uuid \in FreshUuids, f \in Faults :
        Called("create_song", 0, song_data, TRUE, f,
               create_song(St, song_data, uuid, clock, f))

UpdateSong ==
    \E song_id \in SongIds, json \in UpdateJsons, f \in Faults :
        /\ SongUpdateValid(json)
        /\ Called("update_song", song_id, json, TRUE, f,
                  update_song(St, song_id, SongUpdateDict(json), clock, f))

DeleteSong ==
    \E song_id \in SongIds, f \in Faults :
        Called("delete_song", song_id, EmptyJson, TRUE, f,
               delete_song(St, song_id, clock, f))

Next == Tick \/ CreateSong \/ UpdateSong \/ DeleteSong

Spec == Init /\ [][Next]_vars

\* ------------------------------------------- the store behind its handlers
\* PUT /api/v1/songs/<song_id>
PutSong ==
    \E song_id \in PutIds, json \in UpdateJsons, ct \in BOOLEAN,
       f \in {NoFault, [NoFault EXCEPT !.rf = TRUE]} :
        /\ ct \/ json = AlbumOnly
        /\ Called("PUT", song_id, json, ct, f,
                  app_update_song(St, song_id, ct, json, clock, f))

\* POST /api/v1/songs
PostSong ==
    \E json \in PostJsons \cup {EmptyJson}, ct \in BOOLEAN, uuid \in FreshUuids :
        /\ ct \/ json = EmptyJson
        /\ Called("POST", 0, json, ct, NoFault,
                  app_create_song(St, ct, json, uuid, clock, NoFault))

\* DELETE requests are taken at the store (delete_song), so that the
\* handlers meet the documents deletes leave behind
NextHttp == Tick \/ DeleteSong \/ PutSong \/ PostSong

SpecHttp == Init /\ [][NextHttp]_vars

\* ------------------------------------- the persistence layer step by step
\* contents the database file may have when the service finds it: the
\* documents of InitialDocs, no file, a truncated or otherwise invalid JSON
\* text, JSON that is no object, objects without "songs" or "metadata"
PersistFiles ==
    InitialDocs \cup
    {Absent, Partial, NonObject, SongsOnly(StoredSongs({1})),
     MetadataOnly(get_metadata), [kind |-> "doc"]}

\* faults of a _write_data call, alone and the failed backup with each
WriteFaults == {f \in FaultRecords : ~f.rf}

\* the documents handed to _write_data when the file holds the document c:
\* the fixture's (tests/conftest.py populate_test_database, no metadata
\* key), the one delete_song builds for each id, and the one create_song
\* builds
WriteDocs(c, now) ==
    {SongsOnly(StoredSongs(1..MaxId))} \cup
    (IF IsObject(c) /\ DOMAIN c = {"kind", "songs", "metadata"}
     THEN {[c EXCEPT !.songs = WithoutId(c.songs, id)] : id \in IdsOf(c.songs)} \cup
          {[c EXCEPT !.songs =
                Append(c.songs,
                       SongDict(create_song([file |-> c, backup |-> Absent, tmp |-> Absent],
                                            song_data, Uuid(0), now, NoFault).song))] :
             song_data \in CreatePayloads}
     ELSE {})

\* no _write_data call is under way
Idle == IF last.op = "_write_data" THEN last.pc = "done" ELSE TRUE
CallsSoFar == IF last.op = "init" THEN 0 ELSE last.calls

InitPersist ==
    /\ file \in PersistFiles
    /\ backup = Absent
    /\ tmp = Absent
    /\ clock = 0
    /\ deleted = {}
    /\ threads = <<>>
    /\ last = [op |-> "init"]

\* a step of the _write_data call under way took the files to r.st
WriteStep(pc, r) ==
    /\ file' = r.st.file
    /\ backup' = r.st.backup
    /\ tmp' = r.st.tmp
    /\ last' = [last EXCEPT !.pc = IF r.err # "none" THEN "done" ELSE pc,
                            !.err = r.err]
    /\ UNCHANGED <<clock, deleted, threads>>

\* _write_data(data) is called
WriteBegin ==
    \E data \in WriteDocs(file, clock), f \in WriteFaults :
        /\ Idle
        /\ CallsSoFar < MaxCalls
        /\ last' = [op |-> "_write_data", pc |-> "backup", data |-> data,
                    now |-> clock, f |-> f, pre |-> St, err |-> "none",
                    calls |-> CallsSoFar + 1]
        /\ UNCHANGED <<file, backup, tmp, clock, deleted, threads>>

WriteBackup ==
    /\ last.op = "_write_data" /\ last.pc = "backup"
    /\ WriteStep("open", [st |-> create_backup(St, last.f), err |-> "none"])

WriteOpen ==
    /\ last.op = "_write_data" /\ last.pc = "open"
    /\ WriteStep("dump", open_temp(St, last.f))

WriteDump ==
    /\ last.op = "_write_data" /\ last.pc = "dump"
    /\ WriteStep("replace", dump_temp(St, Stamp(last.data, last.now), last.f))

WriteReplace ==
    /\ last.op = "_write_data" /\ last.pc = "replace"
    /\ WriteStep("done", replace_temp(St, last.f))

\* _read_data() is called
ReadData ==
    \E f \in {NoFault, [NoFault EXCEPT !.rf = TRUE], [NoFault EXCEPT !.wf = "open"]} :
        LET r == read_data(St, clock, f) IN
        /\ Idle
        /\ CallsSoFar < MaxCalls
        /\ file' = r.st.file
        /\ backup' = r.st.backup
        /\ tmp' = r.st.tmp
        /\ last' = [op |-> "_read_data", f |-> f, pre |-> St, err |-> r.err,
                    data |-> r.data, calls |-> CallsSoFar + 1]
        /\ UNCHANGED <<clock, deleted, threads>>

NextPersist ==
    Tick \/ WriteBegin \/ WriteBackup \/ WriteOpen \/ WriteDump \/ WriteReplace \/ ReadData

SpecPersist == InitPersist /\ [][NextPersist]_vars

\* ------------------------------------------------- calls in several threads
\* app.run(threaded=True) serves each request in a thread of its own, and
\* DatabaseService takes no lock: the steps of the calls interleave.  Each
\* thread makes one call.  A thread that has opened the temporary file and
\* not yet closed it writes to the file it opened, wherever that file is
\* linked by now:
\*   at     "tmp" the temporary path, "file" the database path (another
\*          thread renamed it there), "gone" no path (it was renamed over)
\*   dirty  another thread has written to the file since it was truncated
NThreads == 2
Threads == 1..NThreads

IdleThread ==
    [op |-> "idle", arg |-> Null, pc |-> "idle", data |-> Absent, at |-> "none",
     dirty |-> FALSE, outcome |-> "", new_id |-> 0]

InitConcurrent ==
    /\ file \in InitialDocs
    /\ backup = Absent
    /\ tmp = Absent
    /\ clock = 0
    /\ deleted = {}
    /\ last = [op |-> "init", pre |-> [file |-> file, backup |-> Absent, tmp |-> Absent]]
    /\ threads = [t \in Threads |-> IdleThread]

\* the thread t has got as far as its _write_data(r.doc), or has ended
\* before it with r.outcome
AfterRead(t, op, arg, r) ==
    /\ threads' = [threads EXCEPT ![t] =
            [IdleThread EXCEPT !.op = op, !.arg = arg, !.new_id = r.new_id, !.data = r.doc,
                               !.pc = IF r.doc = Absent THEN "done" ELSE "backup",
                               !.outcome = IF r.doc = Absent THEN r.outcome ELSE ""]]
    /\ UNCHANGED <<file, backup, tmp, clock, deleted, last>>

\* create_song lines 211-234 in thread t: _read_data and the document built
\* from what it returned
ThreadCreate(t) ==
    \E song_data \in CreatePayloads, uuid \in FreshUuids :
        /\ threads[t].pc = "idle"
        /\ AfterRead(t, "create_song", song_data,
                     create_song(St, song_data, uuid, clock, NoFault))

\* delete_song lines 319-329 in thread t
ThreadDelete(t) ==
    \E song_id \in 1..MaxId :
        /\ threads[t].pc = "idle"
        /\ AfterRead(t, "delete_song", Num(song_id), delete_song(St, song_id, clock, NoFault))

\* _read_data in thread t, a reader of the database file
ThreadRead(t) ==
    /\ threads[t].pc = "idle"
    /\ threads' = [threads EXCEPT ![t] =
            [IdleThread EXCEPT !.op = "_read_data", !.pc = "done",
                               !.outcome = read_data(St, clock, NoFault).err]]
    /\ UNCHANGED <<file, backup, tmp, clock, deleted, last>>

\* _write_data line 104
ThreadBackup(t) ==
    /\ threads[t].pc = "backup"
    /\ backup' = create_backup(St, NoFault).backup
    /\ threads' = [threads EXCEPT ![t].pc = "open"]
    /\ UNCHANGED <<file, tmp, clock, deleted, last>>

\* _write_data line 119: open(temp_path, 'w') creates the temporary file or
\* truncates the one that is there, which another thread may have open
ThreadOpen(t) ==
    /\ threads[t].pc = "open"
    /\ tmp' = open_temp(St, NoFault).st.tmp
    /\ threads' = [u \in Threads |->
            IF u = t THEN [threads[u] EXCEPT !.pc = "dump", !.at = "tmp", !.dirty = FALSE]
            ELSE IF threads[u].at = "tmp" THEN [threads[u] EXCEPT !.dirty = FALSE]
            ELSE threads[u]]
    /\ UNCHANGED <<file, backup, clock, deleted, last>>

\* what json.dump of the document leaves in the file of thread t: a partial
\* text when it raises; the document; or, when another thread has written
\* to the same file in between, the document or a mix of the two texts
\* (each thread writes from its own offset 0)
Dumped(t) ==
    LET stamped == Stamp(threads[t].data, clock) IN
    IF ~DocSerializable(stamped) THEN {Partial}
    ELSE IF threads[t].dirty THEN {stamped, Partial}
    ELSE {stamped}

\* _write_data line 120 and the end of the with block in thread t
ThreadDump(t) ==
    \E content \in Dumped(t) :
        /\ threads[t].pc = "dump"
        /\ tmp' = IF threads[t].at = "tmp" THEN content ELSE tmp
        /\ file' = IF threads[t].at = "file" THEN content ELSE file
        /\ threads' = [u \in Threads |->
                IF u = t
                THEN IF DocSerializable(Stamp(threads[t].data, clock))
                     THEN [threads[u] EXCEPT !.pc = "replace", !.at = "none"]
                     ELSE [threads[u] EXCEPT !.pc = "done", !.at = "none",
                                             !.outcome = "DatabaseWriteError"]
                ELSE IF threads[u].at = threads[t].at
                THEN [threads[u] EXCEPT !.dirty = TRUE]
                ELSE threads[u]]
        /\ UNCHANGED <<backup, clock, deleted, last>>

\* _write_data line 123 in thread t: temp_path.replace(self.db_path); when
\* another thread has renamed the temporary file away it raises
\* FileNotFoundError, which becomes DatabaseWriteError
ThreadReplace(t) ==
    /\ threads[t].pc = "replace"
    /\ IF ~Exists(tmp)
       THEN /\ threads' = [threads EXCEPT ![t].pc = "done",
                                          ![t].outcome = "DatabaseWriteError"]
            /\ UNCHANGED <<file, tmp>>
       ELSE /\ file' = replace_temp(St, NoFault).st.file
            /\ tmp' = replace_temp(St, NoFault).st.tmp
            /\ threads' = [u \in Threads |->
                    IF u = t
                    THEN [threads[u] EXCEPT !.pc = "done",
                            !.outcome = IF threads[u].op = "create_song" THEN "ok" ELSE "True"]
                    ELSE IF threads[u].at = "tmp" THEN [threads[u] EXCEPT !.at = "file"]
                    ELSE IF threads[u].at = "file" THEN [threads[u] EXCEPT !.at = "gone"]
                    ELSE threads[u]]
    /\ UNCHANGED <<backup, clock, deleted, last>>

NextConcurrent ==
    \E t \in Threads :
        \/ ThreadCreate(t) \/ ThreadDelete(t) \/ ThreadRead(t)
        \/ ThreadBackup(t) \/ ThreadOpen(t) \/ ThreadDump(t) \/ ThreadReplace(t)

SpecConcurrent == InitConcurrent /\ [][NextConcurrent]_vars

\* --------------------------------- the minimal variant (api-python/main.py)
\* write_data: the document is written in place, open(DB_PATH, "w") then
\* json.dump; every exception is printed and swallowed
main_write_data(c, data, f) ==
    CASE f.wf = "open" -> c
      [] f.wf = "dump" -> Partial
      [] OTHER -> data

\* read_data: ensure_db_exists() writes {"songs": []} if there is no file;
\* a file that is missing, unreadable, not valid JSON or no JSON object
\* gives {"songs": []}, otherwise the "songs" list (default []) is returned
main_read_data(c, f) ==
    LET c1 == IF Exists(c) THEN c ELSE main_write_data(c, SongsOnly(<<>>), f) IN
    [file |-> c1,
     songs |-> IF Exists(c1) /\ ~f.rf /\ IsObject(c1) /\ "songs" \in DOMAIN c1
               THEN c1.songs ELSE <<>>]

\* the response of a handler of the minimal variant: the file afterwards,
\* the status, the record in the body (None if none), the id add_song
\* generated (0 if none), the document handed to write_data (Absent if none)
MainResponse(c, status, data, new_id, doc) ==
    [file |-> c, status |-> status, data |-> data, new_id |-> new_id, doc |-> doc]

\* s.get("id") == song_id
MainHasId(s, song_id) == "id" \in DOMAIN s /\ s["id"] = Num(song_id)

\* add_song line 154: the ids that are integers
existing_ids(songs) ==
    {songs[i]["id"].n :
        i \in {j \in 1..Len(songs) : "id" \in DOMAIN songs[j] /\ songs[j]["id"].k = "int"}}

\* add_song line 155
main_new_id(songs) ==
    IF existing_ids(songs) = {} THEN 1
    ELSE (CHOOSE m \in existing_ids(songs) : \A n \in existing_ids(songs) : n <= m) + 1

\* add_song (POST /songs): body is request.get_json(silent=True), None
\* (Null) when the request has no valid JSON; new_song.update(body) lets
\* the keys of the body overwrite those of new_song, "id" included
main_add_song(c, body, f) ==
    IF body = Null \/ DOMAIN body = {} THEN MainResponse(c, 400, Null, 0, Absent)
    ELSE IF ~({"titulo", "artista"} \subseteq DOMAIN body)
    THEN MainResponse(c, 400, Null, 0, Absent)
    ELSE
    LET r == main_read_data(c, f)
        new_id == main_new_id(r.songs)
        new_song == body @@ ("id" :> Num(new_id))
        data == SongsOnly(Append(r.songs, new_song))
    IN  MainResponse(main_write_data(r.file, data, f), 201, new_song, new_id, data)

\* update_song (PUT /songs/<id>): the first record with the id is merged
\* with the body, from which "id" has been popped
main_update_song(c, song_id, body, f) ==
    IF body = Null THEN MainResponse(c, 400, Null, 0, Absent)
    ELSE
    LET r == main_read_data(c, f)
        found == {i \in 1..Len(r.songs) : MainHasId(r.songs[i], song_id)}
    IN  IF found = {} THEN MainResponse(r.file, 404, Null, 0, Absent)
        ELSE
        LET i == CHOOSE x \in found : \A y \in found : x <= y
            updated == [x \in DOMAIN body \ {"id"} |-> body[x]] @@ r.songs[i]
            data == SongsOnly([r.songs EXCEPT ![i] = updated])
        IN  MainResponse(main_write_data(r.file, data, f), 200, updated, 0, data)

\* delete_song (DELETE /songs/<id>)
main_delete_song(c, song_id, f) ==
    LET r == main_read_data(c, f) IN
    IF \A i \in 1..Len(r.songs) : ~MainHasId(r.songs[i], song_id)
    THEN MainResponse(r.file, 404, Null, 0, Absent)
    ELSE
    LET data == SongsOnly(SelectSeq(r.songs, LAMBDA s : ~MainHasId(s, song_id)))
    IN  MainResponse(main_write_data(r.file, data, f), 200, Null, 0, data)

\* a record of a db.json the minimal variant finds
MainSong(i) ==
    ("id" :> Num(i)) @@ ("titulo" :> Str("Stored Title")) @@
    ("artista" :> Str("Stored Artist"))

RECURSIVE MainSongs(_)
MainSongs(S) ==
    IF S = {} THEN <<>>
    ELSE LET m == CHOOSE x \in S : \A y \in S : y <= x
         IN  Append(MainSongs(S \ {m}), MainSong(m))

\* the faults of a request: none, an unreadable file, a file that cannot
\* be opened for writing, a write that fails part-way
MainFaults ==
    {NoFault, [NoFault EXCEPT !.rf = TRUE], [NoFault EXCEPT !.wf = "open"],
     [NoFault EXCEPT !.wf = "dump"]}

\* bodies of a POST: titulo and artista, the same with an id, with a
\* further field, without artista, empty, and no JSON at all
MainPostBodies ==
    {Json(Str("Test Song"), Str("Test Artist"), Missing, Missing),
     Json(Str("Test Song"), Str("Test Artist"), Missing, Missing) @@ ("id" :> Num(1)),
     Json(Str("Test Song"), Str("Test Artist"), Missing, Missing) @@ ("id" :> Str("x")),
     Json(Str("Test Song"), Missing, Missing, Missing),
     EmptyJson, Null}

\* bodies of a PUT
MainPutBodies == {AlbumOnly @@ ("id" :> Num(MaxId + 1)), EmptyJson, Null}

InitMinimal ==
    /\ file \in {SongsOnly(MainSongs(S)) : S \in SUBSET (1..MaxId)} \cup
                {Absent, Partial, NonObject}
    /\ backup = Absent
    /\ tmp = Absent
    /\ clock = 0
    /\ deleted = {}
    /\ threads = <<>>
    /\ last = [op |-> "init"]

\* a request to the minimal variant was answered with r
MainCalled(op, song_id, body, f, r) ==
    /\ file' = r.file
    /\ last' = [op |-> op, song_id |-> song_id, body |-> body, f |-> f,
                pre |-> file, r |-> [x \in DOMAIN r \ {"file"} |-> r[x]]]
    /\ UNCHANGED <<backup, tmp, clock, deleted, threads>>

\* the runs are kept finite: at most MaxId records, ids up to MaxId + 1
MainAddSong ==
    \E body \in MainPostBodies, f \in MainFaults :
        LET r == main_add_song(file, body, f) IN
        /\ r.status = 201 => Len(r.doc.songs) <= MaxId /\ r.new_id <= MaxId + 1
        /\ MainCalled("add_song", 0, body, f, r)

MainUpdateSong ==
    \E song_id \in PutIds, body \in MainPutBodies, f \in MainFaults :
        MainCalled("update_song", song_id, body, f, main_update_song(file, song_id, body, f))

MainDeleteSong ==
    \E song_id \in SongIds, f \in MainFaults :
        MainCalled("delete_song", song_id, Null, f, main_delete_song(file, song_id, f))

NextMinimal == MainAddSong \/ MainUpdateSong \/ MainDeleteSong

SpecMinimal == InitMinimal /\ [][NextMinimal]_vars

\* ------------------------------------------------- the read-only operations
\* a record that does not parse as a Song: no titulo
Malformed(i) == [x \in (SongFields \cup DbFields) \ {"titulo"} |-> StoredSong(i)[x]]
\* a well-formed record of another artist, with the empty string as album
OtherSong(i) ==
    [StoredSong(i) EXCEPT !["artista"] = Str("Other Artist"), !["album"] = Str(""),
                          !["año"] = Num(1980 + i)]

\* the records a database file may hold for the id i
QueryRecords(i) == {StoredSong(i), Malformed(i), OtherSong(i)}

\* database files the service may find: up to MaxId records, each
\* well-formed or not, the record at position i with the id i or, like the
\* first, with the id 1
QueryDocs ==
    {Doc(songs, [get_metadata EXCEPT !.total_records = Len(songs)]) :
        songs \in UNION {{s \in [1..n -> UNION {QueryRecords(i) : i \in 1..n}] :
                            \A i \in 1..n : s[i] \in QueryRecords(i) \cup QueryRecords(1)} :
                         n \in 0..MaxId}}

\* values of the query parameters page and per_page
PageArgs == {Missing, Str("abc"), Num(0), Num(1), Num(2), Num(MaxId + 1)}
PerPageArgs == {Missing, Num(0), Num(1), Num(2), Num(MaxPerPage + 1)}

ReadFaults == {NoFault, [NoFault EXCEPT !.rf = TRUE]}

InitQuery ==
    /\ file \in QueryDocs
    /\ backup = Absent
    /\ tmp = Absent
    /\ clock = 0
    /\ deleted = {}
    /\ threads = <<>>
    /\ last = [op |-> "init", song_id |-> 0, arg |-> EmptyJson, ct |-> TRUE, f |-> NoFault,
               pre |-> [file |-> file, backup |-> Absent, tmp |-> Absent],
               after_delete |-> 0, r |-> Outcome(Result(St, "ok", Null, Null, 0))]

\* GET /api/v1/songs?page=&per_page=
GetSongs ==
    \E page_arg \in PageArgs, per_page_arg \in PerPageArgs, f \in ReadFaults :
        /\ f.rf => page_arg = Missing /\ per_page_arg = Missing
        /\ Called("GET", 0, [page |-> page_arg, per_page |-> per_page_arg], TRUE, f,
                  app_get_songs(St, page_arg, per_page_arg, clock, f))

GetAllSongs ==
    \E f \in ReadFaults :
        Called("get_all_songs", 0, EmptyJson, TRUE, f, get_all_songs(St, clock, f))

GetSongById ==
    \E song_id \in SongIds, f \in ReadFaults :
        Called("get_song_by_id", song_id, EmptyJson, TRUE, f,
               get_song_by_id(St, song_id, clock, f))

GetDatabaseStats ==
    \E f \in ReadFaults :
        Called("get_database_stats", 0, EmptyJson, TRUE, f,
               get_database_stats(St, clock, f))

\* update_song with the album alone, on the files of QueryDocs
UpdateAlbum ==
    \E song_id \in SongIds :
        Called("update_song", song_id, AlbumOnly, TRUE, NoFault,
               update_song(St, song_id, SongUpdateDict(AlbumOnly), clock, NoFault))

\* delete_song of the id the first record has, and of an id no record has
DeleteFirst ==
    \E song_id \in PutIds :
        Called("delete_song", song_id, EmptyJson, TRUE, NoFault,
               delete_song(St, song_id, clock, NoFault))

NextQuery ==
    GetSongs \/ GetAllSongs \/ GetSongById \/ GetDatabaseStats \/ UpdateAlbum \/ DeleteFirst

SpecQuery == InitQuery /\ [][NextQuery]_vars

\* ----------------------------------------------- validation on its own
\* SongCreate(**json) at the instant clock: whether pydantic accepts the
\* payload, and the object it builds
ValidateCreate ==
    \E json \in ValidationPayloads :
        /\ last' = [op |-> "SongCreate", arg |-> json, year |-> YearOf(clock),
                    accepted |-> SongCreateValid(json),
                    obj |-> IF SongCreateValid(json) THEN SongCreate(json) ELSE Null]
        /\ UNCHANGED <<file, backup, tmp, clock, deleted, threads>>

InitValidate == Init /\ file.songs = <<>>

NextValidate == Tick \/ ValidateCreate

SpecValidate == InitValidate /\ [][NextValidate]_vars

\* ------------------------------------------------------------------ claims
UniqueIds(songs) ==
    \A i, j \in 1..Len(songs) : songs[i]["id"] = songs[j]["id"] => i = j

\* the document the last call read, and where its song_id is in it
PreSongs == last.pre.file.songs
PreIndex == FindIndex(PreSongs, last.song_id)
IsUpdate == last.op = "update_song" \/ (last.op = "PUT" /\ last.r.outcome # "no call")

\* C1: a create_song call with a valid payload on a readable and writable
\* store succeeds, the record it returns has id max(ids read, default 0) + 1,
\* and the list of records afterwards is the previous list plus that record
C1_CreateAppendsNextId ==
    (last.op = "create_song" /\ last.f = NoFault) =>
        /\ last.r.outcome = "ok"
        /\ last.r.ret["id"] = Num(MaxIdOf(PreSongs) + 1)
        /\ Len(file.songs) = Len(PreSongs) + 1
        /\ SubSeq(file.songs, 1, Len(PreSongs)) = PreSongs
        /\ file.songs[Len(file.songs)]["id"] = last.r.ret["id"]

\* C2: no two records of the document on disk have the same id, and the id
\* create_song generates is the id of no record of the document it read
C2_IdsUnique ==
    /\ UniqueIds(file.songs)
    /\ (last.op = "create_song" /\ last.r.new_id # 0) =>
            last.r.new_id \notin IdsOf(PreSongs)

\* C2 witness: a create_song call generated an id for a store that holds
\* several records
C2_Witness ==
    /\ last.op = "create_song"
    /\ last.r.new_id = MaxId + 1
    /\ Len(file.songs) >= 2

\* C3: the id create_song gives its record is different from the id of
\* every record deleted earlier
C3_NoIdReuse ==
    (last.op = "create_song" /\ last.r.new_id # 0) => last.r.new_id \notin deleted

\* C4: on a readable and writable store create_song with a valid payload
\* does not raise DatabaseWriteError: the document with the new record is
\* written, the record is returned with the payload's values, and the first
\* record of an empty store has id 1
C4_CreateWritesAndReturns ==
    (last.op = "create_song" /\ last.f = NoFault) =>
        /\ last.r.outcome # "DatabaseWriteError"
        /\ last.r.ret # Null
        /\ \A x \in SongFields : last.r.ret[x] = last.arg[x]
        /\ PreSongs = <<>> => last.r.ret["id"] = Num(1)
        /\ Len(file.songs) = Len(PreSongs) + 1
        /\ file.metadata.total_records = Len(file.songs)

\* C5: an update_song whose payload supplies only album, on a readable and
\* writable store that holds the id, sets the record's album and leaves its
\* titulo, artista, año, id, uuid, created_at and every other record as
\* they were
C5_PartialUpdateFrame ==
    (last.op = "update_song" /\ last.arg = AlbumOnly /\ last.f = NoFault /\ PreIndex # 0) =>
        /\ Len(file.songs) = Len(PreSongs)
        /\ file.songs[PreIndex]["album"] = AlbumOnly["album"]
        /\ \A x \in {"titulo", "artista", "año", "id", "uuid", "created_at"} :
                file.songs[PreIndex][x] = PreSongs[PreIndex][x]
        /\ \A j \in 1..Len(PreSongs) : j # PreIndex => file.songs[j] = PreSongs[j]

\* C6: an update never changes a record's identity: whatever the payload,
\* the record on disk keeps its id, uuid and created_at, and the Song the
\* update builds and returns has the stored id, uuid and creation instant
C6_IdentityImmutable ==
    (IsUpdate /\ PreIndex # 0) =>
        /\ Len(file.songs) = Len(PreSongs)
        /\ \A x \in {"id", "uuid", "created_at"} :
                file.songs[PreIndex][x] = PreSongs[PreIndex][x]
        /\ last.r.song # Null =>
                /\ last.r.song["id"] = PreSongs[PreIndex]["id"]
                /\ last.r.song["uuid"] = PreSongs[PreIndex]["uuid"]
                /\ last.r.song["created_at"] = ParseDatetime(PreSongs[PreIndex]["created_at"])

\* C6 witness: an update whose payload names id, uuid and created_at found
\* its record and built the updated Song
C6_Witness ==
    /\ IsUpdate
    /\ {"id", "uuid", "created_at"} \subseteq DOMAIN last.arg
    /\ PreIndex # 0
    /\ last.r.song # Null

\* C7: the payload SongUpdate(album=..., año=...).dict(), with titulo and
\* artista null, is applied to an existing record of a readable and writable
\* store: the call succeeds, album and año take the new values, titulo and
\* artista keep the stored ones
C7_NullIsNotSupplied ==
    (IsUpdate /\ last.arg = UpdateSongDataDict /\ last.f = NoFault /\ PreIndex # 0) =>
        /\ last.r.outcome = "ok"
        /\ file.songs[PreIndex]["album"] = UpdateSongDataDict["album"]
        /\ file.songs[PreIndex]["año"] = UpdateSongDataDict["año"]
        /\ file.songs[PreIndex]["titulo"] = PreSongs[PreIndex]["titulo"]
        /\ file.songs[PreIndex]["artista"] = PreSongs[PreIndex]["artista"]

\* C8: update_song with an id no record of the (readable) store has raises
\* SongNotFoundError and writes nothing: database file, backup file and
\* temporary file are as before
C8_UpdateNotFound ==
    (last.op = "update_song" /\ ~last.f.rf /\ last.song_id \notin IdsOf(PreSongs)) =>
        /\ last.r.outcome = "SongNotFoundError"
        /\ St = last.pre

\* C8 witness: update_song was called on a store with records, none of
\* which has the id
C8_Witness ==
    /\ last.op = "update_song"
    /\ PreSongs # <<>>
    /\ last.song_id \notin IdsOf(PreSongs)
    /\ last.r.outcome = "SongNotFoundError"

\* C9: a PUT with a valid JSON payload and an id that is not in the
\* (readable) store is answered with status 404 and a not-found error
C9_PutNotFoundIs404 ==
    (/\ last.op = "PUT" /\ last.ct /\ SongUpdateValid(last.arg) /\ ~last.f.rf
     /\ last.song_id \notin IdsOf(PreSongs)) =>
        /\ last.r.status = 404
        /\ last.r.error = "NOT_FOUND"

\* C10: on a readable and writable store delete_song returns True exactly
\* when a record of the document has the id, and False otherwise; a
\* delete_song of the id a successful delete_song has just removed returns
\* False, raises nothing and writes nothing
C10_DeleteIdempotent ==
    /\ (last.op = "delete_song" /\ ~last.f.rf /\ last.f.wf = "none") =>
            /\ last.r.outcome \in {"True", "False"}
            /\ last.r.outcome = "True" <=> last.song_id \in IdsOf(PreSongs)
            /\ last.song_id \notin IdsOf(file.songs)
    /\ (last.op = "delete_song" /\ ~last.f.rf /\ last.after_delete = last.song_id) =>
            /\ last.r.outcome = "False"
            /\ St = last.pre

\* C10 witness: the second of two delete_song calls for the same id, the
\* first of which removed the record, returned False
C10_Witness ==
    /\ last.op = "delete_song"
    /\ last.after_delete = last.song_id
    /\ last.r.outcome = "False"
    /\ file.songs # <<>>

\* length of v.strip()
TrimLen(v) == StrLen(Strip(v))
Given(json, x) == x \in DOMAIN json

\* C11: SongCreate rejects every payload with an empty titulo, an empty
\* artista, a titulo of length 201, año = 1799 or año = current year + 1,
\* and accepts every payload whose titulo has length 1..200, whose artista
\* has length 1..100 (lengths of the trimmed values, as the data model
\* defines them), whose album is absent or of length <= 200 and whose año is
\* absent or within 1800..current year
C11_CreateValidation ==
    last.op = "SongCreate" =>
        LET json == last.arg IN
        /\ ( \/ Given(json, "titulo") /\ StrLen(json["titulo"]) = 0
             \/ Given(json, "artista") /\ StrLen(json["artista"]) = 0
             \/ Given(json, "titulo") /\ TrimLen(json["titulo"]) = TituloMaxLength + 1
             \/ Given(json, "año") /\ json["año"] = Num(YearGe - 1)
             \/ Given(json, "año") /\ json["año"] = Num(last.year + 1) )
            => ~last.accepted
        /\ ( /\ Given(json, "titulo")
             /\ TrimLen(json["titulo"]) \in MinLength..TituloMaxLength
             /\ Given(json, "artista")
             /\ TrimLen(json["artista"]) \in MinLength..ArtistaMaxLength
             /\ Given(json, "album") => StrLen(json["album"]) <= AlbumMaxLength
             /\ Given(json, "año") => json["año"].n \in YearGe..last.year )
            => last.accepted

\* C13: on create the length checks of titulo and artista decide on the
\* trimmed value: a payload whose trimmed titulo has length 1..200 and whose
\* trimmed artista has length 1..100 (album and año absent) is accepted
\* whatever whitespace surrounds them, and the values kept are the trimmed
\* ones
C13_TrimBeforeLength ==
    (/\ last.op = "SongCreate"
     /\ DOMAIN last.arg = {"titulo", "artista"}
     /\ TrimLen(last.arg["titulo"]) \in MinLength..TituloMaxLength
     /\ TrimLen(last.arg["artista"]) \in MinLength..ArtistaMaxLength) =>
        /\ last.accepted
        /\ last.obj["titulo"] = Strip(last.arg["titulo"])
        /\ last.obj["artista"] = Strip(last.arg["artista"])

\* C12: a POST whose JSON payload fails SongCreate validation is answered
\* with status 400 and a validation error, and the files are as before
C12_PostInvalidIs400 ==
    (/\ last.op = "POST" /\ last.ct /\ DOMAIN last.arg # {}
     /\ ~SongCreateValid(last.arg)) =>
        /\ last.r.status = 400
        /\ last.r.error = "VALIDATION_ERROR"
        /\ St = last.pre

\* C14: a PUT whose payload holds none of titulo, artista, album, año (the
\* empty object, or an object of unrecognized keys only) is answered with a
\* validation error (status 400), and the files are as before
C14_UpdateNeedsAField ==
    (last.op = "PUT" /\ last.ct /\ DOMAIN last.arg \cap SongFields = {}) =>
        /\ last.r.status = 400
        /\ last.r.error = "VALIDATION_ERROR"
        /\ St = last.pre

\* C15: while a _write_data call runs and after it has ended, by success or
\* by a failure at any step, the database file holds either what it held
\* before the call or the complete new document; after DatabaseWriteError it
\* holds what it held before the call
C15_WriteAtomic ==
    last.op = "_write_data" =>
        /\ file = last.pre.file \/ file = Stamp(last.data, last.now)
        /\ last.err = "DatabaseWriteError" => file = last.pre.file

\* C15 witness: a _write_data call failed at the rename, the complete new
\* document in the temporary file and the old one in the database file
C15_Witness ==
    /\ last.op = "_write_data" /\ last.pc = "done"
    /\ last.err = "DatabaseWriteError"
    /\ last.f.wf = "replace"
    /\ tmp = Stamp(last.data, last.now)
    /\ IsObject(file) /\ file # tmp

\* C16: after a successful _write_data(document) a _read_data returns the
\* songs list that was written, and the total_records of the metadata on
\* disk is the length of the songs list on disk
C16_WriteReadRoundTrip ==
    (last.op = "_write_data" /\ last.pc = "done" /\ last.err = "none") =>
        LET r == read_data(St, clock, NoFault) IN
        /\ r.err = "none"
        /\ r.data.songs = last.data.songs
        /\ file.metadata.total_records = Len(file.songs)

\* C16 witness: the document delete_song builds, one record fewer than the
\* total_records it still carries, was written
C16_Witness ==
    /\ last.op = "_write_data" /\ last.pc = "done" /\ last.err = "none"
    /\ "metadata" \in DOMAIN last.data
    /\ last.data.metadata.total_records = Len(last.data.songs) + 1
    /\ file.songs = last.data.songs

\* C17: _read_data of a file that is not valid JSON, or is JSON but no
\* object, raises DatabaseReadError and leaves the files as they were;
\* _read_data of a JSON object raises nothing, leaves the files as they were
\* and returns the object, with an empty songs list and fresh metadata in
\* place of a missing key
C17_ReadOutcome ==
    (last.op = "_read_data" /\ ~last.f.rf) =>
        LET c == last.pre.file IN
        /\ c.kind \in {"partial", "array"} =>
                last.err = "DatabaseReadError" /\ St = last.pre
        /\ c.kind = "doc" =>
                /\ last.err = "none"
                /\ St = last.pre
                /\ last.data.songs = IF "songs" \in DOMAIN c THEN c.songs ELSE <<>>
                /\ last.data.metadata =
                        IF "metadata" \in DOMAIN c THEN c.metadata ELSE get_metadata

\* C17 witness: _read_data of a file that holds JSON which is no object
C17_Witness ==
    /\ last.op = "_read_data" /\ ~last.f.rf
    /\ last.pre.file = NonObject
    /\ last.err = "DatabaseReadError"

\* C18: create_song, update_song and delete_song fail with
\* DatabaseReadError when the read of the database file fails, and with
\* DatabaseWriteError only when the read succeeded and the write failed
C18_ReadWriteErrorsDistinct ==
    last.op \in {"create_song", "update_song", "delete_song"} =>
        /\ last.f.rf => last.r.outcome = "DatabaseReadError"
        /\ last.r.outcome = "DatabaseWriteError" => ~last.f.rf

\* C19: add_song, update_song and delete_song of the minimal variant answer
\* 201 or 200 only if the document they built is what the file holds
C19_NoFalseSuccess ==
    (/\ last.op \in {"add_song", "update_song", "delete_song"}
     /\ last.r.status \in {200, 201}) =>
        file = last.r.doc

\* C20: the record add_song of the minimal variant creates, whatever the
\* payload holds, is returned and written with the id
\* max(existing ids, default 0) + 1
C20_IdIsGenerated ==
    (last.op = "add_song" /\ last.r.status = 201) =>
        /\ last.r.data["id"] = Num(last.r.new_id)
        /\ last.r.doc.songs[Len(last.r.doc.songs)]["id"] = Num(last.r.new_id)

\* the records of the document the last call read that parse as a Song, as
\* positions, and the position of the k-th of them
WellFormed == {i \in 1..Len(PreSongs) : SongValid(PreSongs[i])}
KthWellFormed(k) == CHOOSE i \in WellFormed : Cardinality({j \in WellFormed : j < i}) = k - 1
\* the list the listing pages through: the well-formed records in file order
Listed == [k \in 1..Cardinality(WellFormed) |-> Song(PreSongs[KthWellFormed(k)])]

\* the page and per_page the listing uses for the parameters it was given
PageUsed(arg) ==
    IF arg.page.k = "int" THEN (IF arg.page.n < 1 THEN 1 ELSE arg.page.n) ELSE DefaultPage
PerPageUsed(arg) ==
    IF arg.per_page.k # "int" THEN DefaultPerPage
    ELSE IF arg.per_page.n < 1 THEN 1
    ELSE IF arg.per_page.n > MaxPerPage THEN MaxPerPage
    ELSE arg.per_page.n

\* C21: GET /songs on a readable store answers 200 with page' = max(1, page)
\* and per_page' = per_page clamped to 1..100, total = length of the list,
\* exactly the records at the positions (page'-1)*per_page' (exclusive) up
\* to page'*per_page' of the list in file order, has_next = (page'*per_page'
\* < total) and has_prev = (page' > 1); a page beyond the last record gives
\* the empty list and no error
C21_Pagination ==
    (last.op = "GET" /\ ~last.f.rf) =>
        LET p == PageUsed(last.arg)
            pp == PerPageUsed(last.arg)
            total == Len(Listed)
            page == last.r.ret
        IN  /\ last.r.status = 200
            /\ page.page = p /\ page.per_page = pp /\ page.total = total
            /\ \A k \in 1..total :
                    ((p - 1) * pp < k /\ k <= p * pp) <=>
                        (/\ k - (p - 1) * pp \in 1..Len(page.songs)
                         /\ page.songs[k - (p - 1) * pp] = Listed[k])
            /\ Len(page.songs) <= pp
            /\ (p - 1) * pp >= total => page.songs = <<>>
            /\ page.has_next = (p * pp < total)
            /\ page.has_prev = (p > 1)

\* C21 witness: the second page of one record each, of a store with two
\* well-formed records
C21_Witness ==
    /\ last.op = "GET" /\ ~last.f.rf
    /\ last.arg = [page |-> Num(2), per_page |-> Num(1)]
    /\ Len(Listed) = 2
    /\ last.r.ret.songs = <<Listed[2]>>
    /\ last.r.ret.has_prev /\ ~last.r.ret.has_next

\* the values the listed records have in a field
ListedValues(x) == {Listed[k][x] : k \in 1..Len(Listed)}
ListedYears == {v.n : v \in ListedValues("año") \ {Null}}

\* C22: get_database_stats on a readable store returns total_songs = number
\* of listed records, total_artists = number of distinct artista values,
\* total_albums = number of distinct album values that are not null (the
\* empty string is one), min_year and max_year = least and greatest año
\* present, both null if there is none
C22_Stats ==
    (last.op = "get_database_stats" /\ ~last.f.rf) =>
        /\ last.r.outcome = "ok"
        /\ last.r.ret.total_songs = Len(Listed)
        /\ last.r.ret.total_artists = Cardinality(ListedValues("artista"))
        /\ last.r.ret.total_albums = Cardinality(ListedValues("album") \ {Null})
        /\ IF ListedYears = {}
           THEN last.r.ret.min_year = Null /\ last.r.ret.max_year = Null
           ELSE /\ last.r.ret.min_year.n \in ListedYears
                /\ last.r.ret.max_year.n \in ListedYears
                /\ \A y \in ListedYears : last.r.ret.min_year.n <= y /\ y <= last.r.ret.max_year.n

\* C23: get_all_songs on a readable store raises nothing, leaves the files
\* as they were and returns exactly the records that parse as a Song, in
\* the relative order they have in the file
C23_ListingSkipsMalformed ==
    (last.op = "get_all_songs" /\ ~last.f.rf) =>
        /\ last.r.outcome = "ok"
        /\ last.r.ret = Listed
        /\ St = last.pre

\* C23 witness: a file with a malformed record before a well-formed one
C23_Witness ==
    /\ last.op = "get_all_songs" /\ ~last.f.rf
    /\ Len(PreSongs) = 2
    /\ ~SongValid(PreSongs[1]) /\ SongValid(PreSongs[2])
    /\ last.r.ret = <<Song(PreSongs[2])>>

\* C30: for the document and id of a get_song_by_id call on a readable
\* store, get_song_by_id returns a record exactly when update_song finds a
\* record to update and exactly when delete_song returns True; get and
\* update act on the first record with the id, and delete removes that
\* record and no other
C30_LookupsAgree ==
    (last.op = "get_song_by_id" /\ ~last.f.rf) =>
        LET u == update_song(last.pre, last.song_id, SongUpdateDict(AlbumOnly), clock, NoFault)
            d == delete_song(last.pre, last.song_id, clock, NoFault)
            got == last.r.ret # Null
        IN  /\ got <=> u.outcome # "SongNotFoundError"
            /\ got <=> d.outcome = "True"
            /\ got =>
                /\ last.r.ret = Song(PreSongs[PreIndex])
                /\ d.st.file.songs =
                        [i \in 1..(Len(PreSongs) - 1) |->
                            IF i < PreIndex THEN PreSongs[i] ELSE PreSongs[i + 1]]

\* the position a record has in the document the last call read
PrePosition(s) == CHOOSE i \in 1..Len(PreSongs) : PreSongs[i] = s
InPre(s) == \E i \in 1..Len(PreSongs) : PreSongs[i] = s
IsMutation == last.op \in {"create_song", "update_song", "delete_song"}
Built == last.r.doc.songs

C27_Timestamps ==
    [][(last' # last /\ last'.op \in {"create_song", "update_song"}) =>
        /\ \A i \in 1..Len(file'.songs) :
                file'.songs[i]["updated_at"].iso >= file'.songs[i]["created_at"].iso
        /\ last'.r.song # Null =>
                /\ last'.r.song["updated_at"] = Datetime(clock)
                /\ last'.op = "create_song" => last'.r.song["created_at"] = Datetime(clock)
                /\ last'.op = "update_song" =>
                        LET stored == file.songs[FindIndex(file.songs, last'.song_id)]
                        IN  /\ last'.r.song["created_at"] = ParseDatetime(stored["created_at"])
                            /\ last'.r.song["created_at"].t <= last'.r.song["updated_at"].t]_vars

\* C27 witness: update_song built the Song of a record that was created
\* earlier, updated_at later than created_at
C27_Witness ==
    /\ last.op = "update_song"
    /\ last.r.song # Null
    /\ last.r.song["created_at"] = Datetime(0)
    /\ last.r.song["updated_at"] = Datetime(1)

\* C28: a finished _write_data call has the result, success or
\* DatabaseWriteError, and leaves the database file with the content, that
\* the same call has when the backup copy fares the other way; when nothing
\* but the backup copy fails the write succeeds
C28_BackupBestEffort ==
    (last.op = "_write_data" /\ last.pc = "done") =>
        LET other == write_data(last.pre, last.data, last.now,
                                [last.f EXCEPT !.bf = ~last.f.bf])
        IN  /\ last.err = other.err
            /\ file = other.st.file
            /\ (last.f.bf /\ last.f.wf = "none") =>
                    /\ last.err = "none" <=> DocSerializable(last.data)
                    /\ last.err = "none" => file = Stamp(last.data, last.now)

\* C28 witness: a _write_data call whose backup copy failed has replaced
\* the document that was in the database file
C28_Witness ==
    /\ last.op = "_write_data" /\ last.pc = "done"
    /\ last.f.bf /\ last.err = "none"
    /\ IsObject(last.pre.file)
    /\ backup = Absent
    /\ file = Stamp(last.data, last.now) /\ file # last.pre.file

\* C29: when create_song, update_song or delete_song raises (the record is
\* not found, the merged record is no valid Song, the read fails or the
\* write fails) the database file holds what it held before the call
C29_UnchangedOnError ==
    (IsMutation /\ last.r.outcome \notin {"ok", "True", "False"}) =>
        file = last.pre.file

\* C29 witness: an update whose merged record failed validation as a Song
\* (titulo null) raised, the file as before
C29_Witness ==
    /\ last.op = "update_song"
    /\ last.arg = UpdateSongDataDict
    /\ PreIndex # 0
    /\ last.r.outcome = "DatabaseWriteError"
    /\ last.r.song = Null
    /\ file = last.pre.file

\* the document the service found, and the records a thread read
Found == last.pre.file
Writers == {t \in Threads : threads[t].data # Absent}

\* C24: when two create_song calls have run in two threads and each read
\* the document before the other wrote, both have returned their record,
\* the two records have the same id, and the document holds the records it
\* held and the record of one of the two calls only
C24_LostUpdate ==
    (/\ \A t \in Threads : threads[t].op = "create_song" /\ threads[t].pc = "done"
     /\ \A t \in Threads : threads[t].new_id = NewId(Found.songs)) =>
        /\ \A t \in Threads : threads[t].outcome = "ok"
        /\ \A t, u \in Threads : threads[t].new_id = threads[u].new_id
        /\ IsObject(file)
        /\ Len(file.songs) = Len(Found.songs) + 1
        /\ \E t \in Threads : file.songs = threads[t].data.songs

\* C25: at every moment the database file holds one complete document, the
\* one the service found or the document of one of the _write_data calls;
\* every _write_data call that has ended has succeeded or raised
\* DatabaseWriteError, and no _read_data has failed
C25_NoPartialFile ==
    /\ IsObject(file)
    /\ \/ file = Found
       \/ \E t \in Writers : file = Stamp(threads[t].data, clock)
    /\ \A t \in Threads :
            threads[t].pc = "done" =>
                threads[t].outcome \in {"ok", "True", "False", "none", "DatabaseWriteError"}

====
